---------------------------- MODULE Spec2Model ----------------------------
(***************************************************************************)
(* Model of GLWidget (3d_interface.py): the rotating-cube scene state, the *)
(* timer tick update_rotation, resizeGL, paintGL with its two draw loops,  *)
(* and the add_geometry hook.                                              *)
(*                                                                         *)
(* Numbers.  Angles are whole degrees (the code only ever adds 1.0 to      *)
(* 0.0, so every stored angle is an exactly representable whole number).   *)
(* Vertex-table floats are stored in tenths (0.5 -> 5, 1.0 -> 10).         *)
(* Rotation-matrix entries are fixed point, in ten-thousandths.            *)
(* Matrices built by look_at and perspective_projection are kept as the    *)
(* constructor applied to its arguments, and a matrix product as the pair  *)
(* of its factors: the library's arithmetic is outside the repository.     *)
(***************************************************************************)
EXTENDS Integers, Sequences, FiniteSets, TLC

VARIABLES
    angle,     \* self.angle
    proj,      \* self.proj
    view,      \* self.view
    model,     \* self.model
    axes,      \* self.axes['vertices']
    cube,      \* self.cube['vertices']
    viewport,  \* the context's viewport rectangle
    calls,     \* the graphics calls made by the most recent handler
    reads,     \* the table subscripts evaluated by the most recent handler
    op,        \* the most recent handler
    outcome,   \* "ok" when it returned, "raised" when it raised
    ticks,     \* number of update_rotation calls so far
    start      \* the angle the behaviour started from

vars == <<angle, proj, view, model, axes, cube,
          viewport, calls, reads, op, outcome, ticks, start>>

(* ------------------------------ bounds -------------------------------- *)

\* update_rotation is called at most MaxTicks times in a behaviour
MaxTicks == 361
\* resizeGL is called with w in 0..MaxW and h in 0..MaxH
MaxW == 2
MaxH == 1
\* starting angles tried for update_rotation seen as a function of the
\* stored angle reach down to -1 - StartBelow and up to 718 + StartAbove
StartBelow == 1
StartAbove == 2

(* --------------------------- library values --------------------------- *)

\* Python's None (self.proj before the first resizeGL)
None == [kind |-> "None"]

\* the value of an expression whose evaluation raised
Raised == [kind |-> "raised"]

RECURSIVE Gcd(_, _)
Gcd(a, b) == IF b = 0 THEN a ELSE Gcd(b, a % b)

\* Python's w / h on non-negative ints: ZeroDivisionError for h = 0,
\* otherwise the quotient, kept as a fraction in lowest terms
TrueDiv(w, h) ==
    IF h = 0 THEN Raised
    ELSE [kind |-> "num", n |-> w \div Gcd(w, h), d |-> h \div Gcd(w, h)]

\* a numeric literal n/d
Num(n, d) == [kind |-> "num", n |-> n, d |-> d]

\* Matrix44.perspective_projection(fovy, aspect, near, far)
perspective_projection(fovy, aspect, near, far) ==
    [kind |-> "perspective", fovy |-> fovy, aspect |-> aspect,
     near |-> near, far |-> far]

\* Matrix44.look_at(eye, target, up)
look_at(eye, target, up) ==
    [kind |-> "look_at", eye |-> eye, target |-> target, up |-> up]

\* sin of 0..90 degrees, in ten-thousandths
SinTab ==
    << 0, 175, 349, 523, 698, 872, 1045, 1219, 1392, 1564, 1736, 1908,
       2079, 2250, 2419, 2588, 2756, 2924, 3090, 3256, 3420, 3584, 3746,
       3907, 4067, 4226, 4384, 4540, 4695, 4848, 5000, 5150, 5299, 5446,
       5592, 5736, 5878, 6018, 6157, 6293, 6428, 6561, 6691, 6820, 6947,
       7071, 7193, 7314, 7431, 7547, 7660, 7771, 7880, 7986, 8090, 8192,
       8290, 8387, 8480, 8572, 8660, 8746, 8829, 8910, 8988, 9063, 9135,
       9205, 9272, 9336, 9397, 9455, 9511, 9563, 9613, 9659, 9703, 9744,
       9781, 9816, 9848, 9877, 9903, 9925, 9945, 9962, 9976, 9986, 9994,
       9998, 10000 >>

\* sin and cos of a whole number of degrees (any integer), fixed point
SinDeg(d) ==
    LET r == d % 360
    IN  IF r <= 90 THEN SinTab[r + 1]
        ELSE IF r <= 180 THEN SinTab[180 - r + 1]
        ELSE IF r <= 270 THEN -SinTab[r - 180 + 1]
        ELSE -SinTab[360 - r + 1]

CosDeg(d) == SinDeg(d + 90)

\* Matrix44.identity()
identity ==
    [kind |-> "m44",
     m |-> << <<10000, 0, 0, 0>>, <<0, 10000, 0, 0>>,
              <<0, 0, 10000, 0>>, <<0, 0, 0, 10000>> >>]

\* Matrix44.from_y_rotation(np.radians(deg))
from_y_rotation(deg) ==
    [kind |-> "m44",
     m |-> << <<CosDeg(deg), 0, -SinDeg(deg), 0>>,
              <<0, 10000, 0, 0>>,
              <<SinDeg(deg), 0, CosDeg(deg), 0>>,
              <<0, 0, 0, 10000>> >>]

\* a * b on Matrix44 operands; None (or a failed operand) on the left raises
MatMul(a, b) ==
    IF a = None \/ a = Raised \/ b = None \/ b = Raised THEN Raised
    ELSE [kind |-> "mul", l |-> a, r |-> b]

\* m.astype('f4')
astype_f4(m) == [kind |-> "f4", of |-> m]

(* --------------------------- geometry tables -------------------------- *)

\* variant: the Y and Z segments carry each other's colour
AxesVerticesSwappedColours ==
    << 0, 0, 0, 10, 0, 0,
       10, 0, 0, 10, 0, 0,
       0, 0, 0, 0, 0, 10,
       0, 10, 0, 0, 0, 10,
       0, 0, 0, 0, 10, 0,
       0, 0, 10, 0, 10, 0 >>

\* self.axes['vertices']: x, y, z, r, g, b per vertex, in tenths
AxesVertices ==
    << 0, 0, 0, 10, 0, 0,
       10, 0, 0, 10, 0, 0,
       0, 0, 0, 0, 10, 0,
       0, 10, 0, 0, 10, 0,
       0, 0, 0, 0, 0, 10,
       0, 0, 10, 0, 0, 10 >>

\* variant: the last two vertices of the front face are exchanged
CubeVerticesBowTie ==
    << -5, -5,  5,  0, 10, 10,
        5, -5,  5,  0, 10, 10,
       -5,  5,  5,  0, 10, 10,
        5,  5,  5,  0, 10, 10,

       -5, -5, -5,  10, 0, 10,
        5, -5, -5,  10, 0, 10,
        5,  5, -5,  10, 0, 10,
       -5,  5, -5,  10, 0, 10,

       -5, -5, -5,  10, 10, 0,
       -5, -5,  5,  10, 10, 0,
       -5,  5,  5,  10, 10, 0,
       -5,  5, -5,  10, 10, 0,

        5, -5, -5,  0, 10, 0,
        5, -5,  5,  0, 10, 0,
        5,  5,  5,  0, 10, 0,
        5,  5, -5,  0, 10, 0,

       -5,  5, -5,  0, 0, 10,
       -5,  5,  5,  0, 0, 10,
        5,  5,  5,  0, 0, 10,
        5,  5, -5,  0, 0, 10,

       -5, -5, -5,  10, 0, 0,
       -5, -5,  5,  10, 0, 0,
        5, -5,  5,  10, 0, 0,
        5, -5, -5,  10, 0, 0 >>

\* self.cube['vertices']: x, y, z, r, g, b per vertex, in tenths
CubeVertices ==
    << -5, -5,  5,  0, 10, 10,
        5, -5,  5,  0, 10, 10,
        5,  5,  5,  0, 10, 10,
       -5,  5,  5,  0, 10, 10,

       -5, -5, -5,  10, 0, 10,
        5, -5, -5,  10, 0, 10,
        5,  5, -5,  10, 0, 10,
       -5,  5, -5,  10, 0, 10,

       -5, -5, -5,  10, 10, 0,
       -5, -5,  5,  10, 10, 0,
       -5,  5,  5,  10, 10, 0,
       -5,  5, -5,  10, 10, 0,

        5, -5, -5,  0, 10, 0,
        5, -5,  5,  0, 10, 0,
        5,  5,  5,  0, 10, 0,
        5,  5, -5,  0, 10, 0,

       -5,  5, -5,  0, 0, 10,
       -5,  5,  5,  0, 0, 10,
        5,  5,  5,  0, 0, 10,
        5,  5, -5,  0, 0, 10,

       -5, -5, -5,  10, 0, 0,
       -5, -5,  5,  10, 0, 0,
        5, -5,  5,  10, 0, 0,
        5, -5, -5,  10, 0, 0 >>

(* ------------------------------ GL calls ------------------------------ *)

\* one call into the graphics context
Call(fn, mode, args) == [fn |-> fn, mode |-> mode, args |-> args, mat |-> None]

\* glLoadMatrixf(m)
LoadCall(m) == [fn |-> "glLoadMatrixf", mode |-> "", args |-> <<>>, mat |-> m]

\* the calls and table reads made so far by a handler; ok is FALSE once an
\* index read has raised
DrawState(cs, rs, ok) == [calls |-> cs, reads |-> rs, ok |-> ok]

\* fn(arr[a], arr[a + 1], arr[a + 2]): the three subscripts are evaluated
\* first (0-based; a subscript >= len(arr) raises IndexError), then the call
\* is made
Call3(st, fn, tbl, arr, a) ==
    IF ~st.ok THEN st
    ELSE LET rs == st.reads \o << <<tbl, a>>, <<tbl, a + 1>>, <<tbl, a + 2>> >>
         IN  IF a + 2 >= Len(arr)
             THEN DrawState(st.calls, rs, FALSE)
             ELSE DrawState(
                    Append(st.calls,
                           Call(fn, "", <<arr[a + 1], arr[a + 2], arr[a + 3]>>)),
                    rs, TRUE)

\* a call that reads no table
Call0(st, fn, mode) ==
    IF ~st.ok THEN st
    ELSE DrawState(Append(st.calls, Call(fn, mode, <<>>)), st.reads, TRUE)

(* ------------------------------ handlers ------------------------------ *)

\* draw_axes: one iteration per 12 floats, from offset i
RECURSIVE draw_axes_loop(_, _, _)
draw_axes_loop(st, arr, i) ==
    IF i >= Len(arr) \/ ~st.ok THEN st
    ELSE LET s1 == Call3(st, "glColor3f", "axes", arr, i + 3)
             s2 == Call3(s1, "glVertex3f", "axes", arr, i)
             s3 == Call3(s2, "glColor3f", "axes", arr, i + 9)
             s4 == Call3(s3, "glVertex3f", "axes", arr, i + 6)
         IN  draw_axes_loop(s4, arr, i + 12)

draw_axes(st, arr) ==
    Call0(draw_axes_loop(Call0(st, "glBegin", "GL_LINES"), arr, 0),
          "glEnd", "")

\* draw_cube: the inner loop over j, for the face at offset i
RECURSIVE draw_cube_face(_, _, _, _)
draw_cube_face(st, arr, i, j) ==
    IF j >= 4 \/ ~st.ok THEN st
    ELSE LET vertex_offset == i + j * 6
             s1 == Call3(st, "glColor3f", "cube", arr, vertex_offset + 3)
             s2 == Call3(s1, "glVertex3f", "cube", arr, vertex_offset)
         IN  draw_cube_face(s2, arr, i, j + 1)

\* draw_cube: one iteration per 24 floats, from offset i
RECURSIVE draw_cube_loop(_, _, _)
draw_cube_loop(st, arr, i) ==
    IF i >= Len(arr) \/ ~st.ok THEN st
    ELSE draw_cube_loop(draw_cube_face(st, arr, i, 0), arr, i + 24)

draw_cube(st, arr) ==
    Call0(draw_cube_loop(Call0(st, "glBegin", "GL_QUADS"), arr, 0),
          "glEnd", "")

\* variant: the wrap test is > instead of >=
NextAngleLateWrap(a) ==
    LET b == a + 1
    IN  IF b > 360 THEN b - 360 ELSE b

\* variant: the wrap constant is 359 instead of 360
NextAngleEarlyWrap(a) ==
    LET b == a + 1
    IN  IF b >= 359 THEN b - 359 ELSE b

\* self.angle += 1.0; if self.angle >= 360.0: self.angle -= 360.0
NextAngle(a) ==
    LET b == a + 1
    IN  IF b >= 360 THEN b - 360 ELSE b

\* variant: the zero-height guard is missing
AspectUnguarded(w, h) == TrueDiv(w, h)

\* aspect = w / h if h != 0 else 1
Aspect(w, h) == IF h # 0 THEN TrueDiv(w, h) ELSE Num(1, 1)

\* the view matrix built in __init__
InitView == look_at(<<30, 30, 30>>, <<0, 0, 0>>, <<0, 10, 0>>)

\* __init__ followed by init_geometries, with self.angle = a and
\* self.model = m
Construct(a, m) ==
    /\ angle = a
    /\ proj = None
    /\ view = InitView
    /\ model = m
    /\ axes = AxesVertices
    /\ cube = CubeVertices
    /\ viewport = <<0, 0, 0, 0>>
    /\ calls = <<>>
    /\ reads = <<>>
    /\ op = "__init__"
    /\ outcome = "ok"
    /\ ticks = 0
    /\ start = a

Init == Construct(0, identity)

\* variant: the model matrix is rebuilt before the angle is advanced
update_rotation_stale_model ==
    /\ ticks < MaxTicks
    /\ angle' = NextAngle(angle)
    /\ model' = from_y_rotation(angle)
    /\ ticks' = ticks + 1
    /\ calls' = <<>>
    /\ reads' = <<>>
    /\ op' = "update_rotation"
    /\ outcome' = "ok"
    /\ UNCHANGED <<proj, view, axes, cube, viewport, start>>

\* the timer's timeout handler; self.update() only posts a repaint request
\* to the host, which may run paintGL at any later time
update_rotation ==
    /\ ticks < MaxTicks
    /\ angle' = NextAngle(angle)
    /\ model' = from_y_rotation(angle')
    /\ ticks' = ticks + 1
    /\ calls' = <<>>
    /\ reads' = <<>>
    /\ op' = "update_rotation"
    /\ outcome' = "ok"
    /\ UNCHANGED <<proj, view, axes, cube, viewport, start>>

resizeGL(w, h) ==
    LET aspect == Aspect(w, h)
    IN  /\ viewport' = <<0, 0, w, h>>
        /\ calls' = << Call("glViewport", "", <<0, 0, w, h>>) >>
        /\ reads' = <<>>
        /\ op' = "resizeGL"
        /\ IF aspect = Raised
           THEN /\ outcome' = "raised"
                /\ proj' = proj
           ELSE /\ outcome' = "ok"
                /\ proj' = perspective_projection(Num(45, 1), aspect,
                                                  Num(1, 10), Num(100, 1))
        /\ UNCHANGED <<angle, view, model, axes, cube, ticks, start>>

paintGL ==
    LET mvp == MatMul(MatMul(proj, view), model)
        c0 == << Call("glClear",
                      "GL_COLOR_BUFFER_BIT|GL_DEPTH_BUFFER_BIT", <<>>) >>
    IN  /\ op' = "paintGL"
        /\ IF mvp = Raised
           THEN /\ calls' = c0
                /\ reads' = <<>>
                /\ outcome' = "raised"
           ELSE LET st0 == DrawState(
                             c0 \o << Call("glMatrixMode", "GL_MODELVIEW", <<>>),
                                      LoadCall(astype_f4(mvp)) >>,
                             <<>>, TRUE)
                    st == draw_cube(draw_axes(st0, axes), cube)
                IN  /\ calls' = st.calls
                    /\ reads' = st.reads
                    /\ outcome' = IF st.ok THEN "ok" ELSE "raised"
        /\ UNCHANGED <<angle, proj, view, model, axes, cube, viewport,
                       ticks, start>>

\* the vertex buffers add_geometry is called with
Buffers == { <<>>, <<0, 0, 0, 10, 10, 10>>, <<5, 5, 5>> }

\* variant: the hook appends the buffer to the cube table
add_geometry_appends(vertices) ==
    /\ cube' = cube \o vertices
    /\ calls' = <<>>
    /\ reads' = <<>>
    /\ op' = "add_geometry"
    /\ outcome' = "ok"
    /\ UNCHANGED <<angle, proj, view, model, axes, viewport, ticks, start>>

add_geometry(vertices) ==
    /\ calls' = <<>>
    /\ reads' = <<>>
    /\ op' = "add_geometry"
    /\ outcome' = "ok"
    /\ UNCHANGED <<angle, proj, view, model, axes, cube, viewport,
                   ticks, start>>

Next ==
    \/ update_rotation
    \/ \E w \in 0 .. MaxW, h \in 0 .. MaxH : resizeGL(w, h)
    \/ paintGL
    \/ \E v \in Buffers : add_geometry(v)

Spec == Init /\ [][Next]_vars

\* the starting angles tried when update_rotation is taken as a function of
\* the stored angle
StartAngles == {-1 - StartBelow, -1, 359, 718, 718 + StartAbove}

InitAny == \E a \in StartAngles : Construct(a, from_y_rotation(a))

SpecAny == InitAny /\ [][Next]_vars

(* ------------------------------- claims ------------------------------- *)

InRange(a) == 0 <= a /\ a < 360

\* row k (0-based) of an interleaved table: position and colour
RowPos(arr, k) == <<arr[6 * k + 1], arr[6 * k + 2], arr[6 * k + 3]>>
RowCol(arr, k) == <<arr[6 * k + 4], arr[6 * k + 5], arr[6 * k + 6]>>

\* the colour and vertex submissions for rows 0 .. n-1 of a table, row by row
RowCalls(arr, n) ==
    [i \in 1 .. 2 * n |->
        IF i % 2 = 1
        THEN Call("glColor3f", "", RowCol(arr, (i - 1) \div 2))
        ELSE Call("glVertex3f", "", RowPos(arr, (i - 2) \div 2))]

\* how many of the recorded subscript evaluations hit tbl[idx]
ReadCount(tbl, idx) ==
    Cardinality({i \in 1 .. Len(reads) : reads[i] = <<tbl, idx>>})

\* C1: paintGL never raises, in any state reachable from construction, and
\* the transform it loads is the product of a projection, a view and a model
\* that are all defined (a paintGL before the first resizeGL included).
C1_RenderNeverRaises ==
    op = "paintGL" =>
        /\ outcome = "ok"
        /\ proj # None
        /\ \E i \in 1 .. Len(calls) :
              calls[i] = LoadCall(astype_f4(MatMul(MatMul(proj, view), model)))

C3_AngleAndModelInStep ==
    /\ InRange(angle)
    /\ model = from_y_rotation(angle)

C3_Witness ==
    /\ op = "paintGL"
    /\ ticks = 359
    /\ angle = 359
    /\ proj # None

\* C4: one update_rotation sets the angle to (angle + 1) mod 360 and the
\* model to the Y rotation by the new angle, and leaves view, projection and
\* both geometry tables as they were.
C4_AdvanceEffect ==
    [][op' = "update_rotation" =>
          /\ angle' = (angle + 1) % 360
          /\ model' = from_y_rotation(angle')
          /\ UNCHANGED <<view, proj, axes, cube>>]_vars

C4_Witness ==
    /\ op = "update_rotation"
    /\ ticks = 360
    /\ angle = 0
    /\ proj # None

\* C5: from angle 0, after k update_rotation calls with k < 360 the angle is
\* k, and after exactly 360 calls the angle is 0 again and the model is the
\* identity.
C5_FullTurn ==
    /\ ticks < 360 => angle = ticks
    /\ ticks = 360 => (angle = 0 /\ model = identity)

C5_Witness ==
    /\ start = 0
    /\ ticks = 360
    /\ op = "update_rotation"
    /\ model = identity

\* C6: resizeGL(w, h) never raises; it sets the viewport to (0, 0, w, h) and
\* builds the projection with fov 45, near 0.1, far 100.0 and aspect 1 when
\* h = 0, aspect w / h otherwise; angle, model, view and the tables are left
\* as they were.
C6_ResizeEffect ==
    [][op' = "resizeGL" =>
          LET w == viewport'[3]
              h == viewport'[4]
          IN  /\ outcome' = "ok"
              /\ viewport'[1] = 0 /\ viewport'[2] = 0
              /\ calls' = << Call("glViewport", "", <<0, 0, w, h>>) >>
              /\ proj'.kind = "perspective"
              /\ proj'.fovy = Num(45, 1)
              /\ proj'.near = Num(1, 10)
              /\ proj'.far = Num(100, 1)
              /\ proj'.aspect.kind = "num"
              /\ proj'.aspect.d # 0
              /\ h = 0 => proj'.aspect = Num(1, 1)
              /\ h # 0 => proj'.aspect.n * h = proj'.aspect.d * w
              /\ UNCHANGED <<angle, model, view, axes, cube>>]_vars

C6_Witness ==
    /\ op = "resizeGL"
    /\ outcome = "ok"
    /\ viewport = <<0, 0, 2, 0>>
    /\ proj = perspective_projection(Num(45, 1), Num(1, 1),
                                     Num(1, 10), Num(100, 1))

\* C7: every paintGL clears the buffers, loads the one mvp transform, then
\* submits the axes as 3 line segments and the cube as 6 quads, each vertex
\* in table order and preceded by the colour of its own row: 6 line vertices
\* and 24 quad vertices, every table entry read exactly once and none outside
\* its table, and no transform change between the axes and the cube.
C7_RenderOrder ==
    op = "paintGL" =>
        /\ calls =
             << Call("glClear", "GL_COLOR_BUFFER_BIT|GL_DEPTH_BUFFER_BIT", <<>>),
                Call("glMatrixMode", "GL_MODELVIEW", <<>>),
                LoadCall(astype_f4(MatMul(MatMul(proj, view), model))),
                Call("glBegin", "GL_LINES", <<>>) >>
             \o RowCalls(axes, 6)
             \o << Call("glEnd", "", <<>>), Call("glBegin", "GL_QUADS", <<>>) >>
             \o RowCalls(cube, 24)
             \o << Call("glEnd", "", <<>>) >>
        /\ \A i \in 0 .. Len(axes) - 1 : ReadCount("axes", i) = 1
        /\ \A i \in 0 .. Len(cube) - 1 : ReadCount("cube", i) = 1
        /\ Len(reads) = Len(axes) + Len(cube)

\* C8: add_geometry never raises and changes nothing: in every reachable
\* state the axes table (6 vertices) and the cube table (24 vertices) are as
\* built by init_geometries, and the view is the one built in __init__ (eye
\* (3,3,3), target the origin, up +Y).
C8_TablesAndViewFixed ==
    /\ op = "add_geometry" => outcome = "ok"
    /\ Len(axes) = 6 * 6
    /\ Len(cube) = 24 * 6
    /\ axes = AxesVertices
    /\ cube = CubeVertices
    /\ view = look_at(<<30, 30, 30>>, <<0, 0, 0>>, <<0, 10, 0>>)

C8_Witness ==
    /\ op = "add_geometry"
    /\ ticks > 0
    /\ proj # None

\* the plane a cube face lies in: <<c, s>> when coordinate c of all four
\* vertices is s
FacePlanes(f) ==
    {pl \in (1 .. 3) \X {-5, 5} :
        \A j \in 0 .. 3 : RowPos(cube, 4 * f + j)[pl[1]] = pl[2]}

\* in how many coordinates two positions differ
DiffCount(p, q) == Cardinality({c \in 1 .. 3 : p[c] # q[c]})

\* C9: each of the 6 groups of 4 cube vertices is a face: the 4 positions
\* share one coordinate at +0.5 or -0.5, the other two coordinates run
\* through the four combinations of +-0.5 in perimeter order, the 4 vertices
\* carry one colour; the faces lie in 6 distinct planes and have 6 distinct
\* colours.
C9_CubeFaces ==
    /\ Len(cube) = 6 * 4 * 6
    /\ \A f \in 0 .. 5 :
          /\ Cardinality(FacePlanes(f)) = 1
          /\ \A j \in 0 .. 3 :
                /\ \A c \in 1 .. 3 : RowPos(cube, 4 * f + j)[c] \in {-5, 5}
                /\ DiffCount(RowPos(cube, 4 * f + j),
                             RowPos(cube, 4 * f + ((j + 1) % 4))) = 1
                /\ RowCol(cube, 4 * f + j) = RowCol(cube, 4 * f)
          /\ Cardinality({RowPos(cube, 4 * f + j) : j \in 0 .. 3}) = 4
    /\ Cardinality(UNION {FacePlanes(f) : f \in 0 .. 5}) = 6
    /\ Cardinality({RowCol(cube, 4 * f) : f \in 0 .. 5}) = 6

C9_Witness ==
    /\ op = "paintGL"
    /\ outcome = "ok"
    /\ \A i \in 0 .. 143 : ReadCount("cube", i) = 1

\* unit basis vector s (0 = X, 1 = Y, 2 = Z), in tenths
Basis(s) == [c \in 1 .. 3 |-> IF c = s + 1 THEN 10 ELSE 0]

\* C10: the three axis segments X, Y, Z each start at the origin and end at
\* the unit basis vector, and both endpoints carry the segment's colour,
\* (1,0,0), (0,1,0), (0,0,1).
C10_AxesSegments ==
    /\ Len(axes) = 3 * 2 * 6
    /\ \A s \in 0 .. 2 :
          /\ RowPos(axes, 2 * s) = <<0, 0, 0>>
          /\ RowPos(axes, 2 * s + 1) = Basis(s)
          /\ RowCol(axes, 2 * s) = Basis(s)
          /\ RowCol(axes, 2 * s + 1) = Basis(s)

C10_Witness ==
    /\ op = "paintGL"
    /\ outcome = "ok"
    /\ \A i \in 0 .. 35 : ReadCount("axes", i) = 1

=============================================================================
